---- MODULE Spec2Model ----
(***************************************************************************)
(* Health-status prediction engine of the bracelet backend                 *)
(* (app/services/health_prediction_service.py) together with the part of   *)
(* the metric store it reads (app/repositories/metric_repository.py).      *)
(*                                                                         *)
(* Representation of numbers.  Every float of the program is a rational    *)
(* [num, den] counted in thousandths of the unit: 95.0 % is [95000, 1],    *)
(* the mean of 97.0 and 92.0 is [189000, 2] normalised to [94500, 1].      *)
(* Thresholds are integers in thousandths; comparisons cross-multiply.     *)
(* None is the record [none |-> TRUE].                                     *)
(***************************************************************************)
EXTENDS Integers, Sequences, FiniteSets, TLC

VARIABLES
    users,              \* users table: id -> "none" | "active" | "deleted"
    metrics,            \* metrics table: sequence of rows, in insertion order
    now,                \* wall clock, in hours
    pc,                 \* position of the predict_health_status call
    request,            \* HealthPredictionRequest of the call in progress
    ml_model,           \* self.ml_model of the service instance of the call
    spo2,               \* resolved vitals of the call in progress
    heart_rate,
    body_temperature,
    outcome,            \* what the call gave its caller
    log,                \* records the call in progress gave to its logger
    prev,               \* observation of the previous completed call
    other,              \* a second call in flight, while it is not running
    accounts,           \* credentials and verification columns of the users table
    tokens,             \* access tokens that login has issued
    blacklist,          \* keys of the blacklist store, with their expiry
    reply               \* the account request just handled and its answer

vars == <<users, metrics, now, pc, request, ml_model,
          spo2, heart_rate, body_temperature, outcome, log, prev, other,
          accounts, tokens, blacklist, reply>>

store == <<users, metrics>>
call  == <<pc, request, ml_model, spo2, heart_rate, body_temperature, outcome,
          log>>
auth  == <<accounts, tokens, blacklist, reply>>

-----------------------------------------------------------------------------
(* Bounds of the model *)

MaxMetrics == 2         \* rows the metrics table may hold
MaxRows    == 101       \* rows the table may hold after a batch
MaxIssues  == 3         \* verification codes generated for one user
MaxTime    == 26        \* last clock value, in hours
TickHours  == 13        \* hours between two observations of the clock

Users == {"u1", "u2"}

-----------------------------------------------------------------------------
(* Numbers *)

None == [none |-> TRUE]
Some(k) == [int |-> k]       \* a present Optional[int] / Optional[datetime]

RECURSIVE GCD(_, _)
GCD(a, b) == IF b = 0 THEN a ELSE GCD(b, a % b)

Frac(n, d) == LET g == GCD(n, d) IN
              IF g = 0 THEN [num |-> 0, den |-> 1]
                       ELSE [num |-> n \div g, den |-> d \div g]
Float(k) == [num |-> k, den |-> 1]

FracAdd(x, y) == Frac(x.num * y.den + y.num * x.den, x.den * y.den)
FracDiv(x, n) == Frac(x.num, x.den * n)

Lt(x, k) == x.num < k * x.den
Gt(x, k) == x.num > k * x.den
Le(x, k) == x.num <= k * x.den
Ge(x, k) == x.num >= k * x.den

-----------------------------------------------------------------------------
(* app/models/enums.py, app/schemas/health_prediction.py *)

SPO2             == "spo2"
HEART_RATE       == "heart_rate"
SKIN_TEMPERATURE == "skin_temperature"
MetricType       == {SPO2, HEART_RATE, SKIN_TEMPERATURE}

LOW    == "low"
MEDIUM == "medium"
HIGH   == "high"
HealthRiskLevel == {LOW, MEDIUM, HIGH}

(* HealthPredictionService.__init__: self.health_thresholds, thousandths *)
spo2_normal_min           == 95000
spo2_concerning_min       == 90000
heart_rate_normal_min     == 60000
heart_rate_normal_max     == 100000
heart_rate_concerning_min == 40000
heart_rate_concerning_max == 120000
temp_normal_min           == 36100
temp_normal_max           == 37200
temp_concerning_min       == 35000
temp_concerning_max       == 38000

WindowHours  == 24      \* timedelta(hours=24) of _get_metric_from_db
DefaultLimit == 100     \* limit: int = 100 of get_user_metrics
DefaultHorizon == 24    \* request.prediction_horizon_hours or 24

-----------------------------------------------------------------------------
(* HealthPredictionService._predict_health_status                          *)
(* Each block yields what it adds to <<critical_count, concerning_count>>. *)

(* 95.0 itself taken as below the normal minimum *)
CheckSpO2_Inclusive(v) ==
    IF v = None THEN <<0, 0>>
    ELSE IF Lt(v, spo2_concerning_min) THEN <<1, 0>>
    ELSE IF Le(v, spo2_normal_min) THEN <<0, 1>>
    ELSE <<0, 0>>

(* a missing SpO2 compared as if it were below every threshold *)
CheckSpO2_MissingCritical(v) ==
    IF v = None THEN <<1, 0>>
    ELSE IF Lt(v, spo2_concerning_min) THEN <<1, 0>>
    ELSE IF Lt(v, spo2_normal_min) THEN <<0, 1>>
    ELSE <<0, 0>>

CheckSpO2(v) ==
    IF v = None THEN <<0, 0>>
    ELSE IF Lt(v, spo2_concerning_min) THEN <<1, 0>>
    ELSE IF Lt(v, spo2_normal_min) THEN <<0, 1>>
    ELSE <<0, 0>>

(* 120.0 itself taken as above the concerning maximum *)
CheckHeartRate_Strict(v) ==
    IF v = None THEN <<0, 0>>
    ELSE IF Lt(v, heart_rate_concerning_min) \/ Ge(v, heart_rate_concerning_max)
         THEN <<1, 0>>
    ELSE IF Lt(v, heart_rate_normal_min) \/ Gt(v, heart_rate_normal_max)
         THEN <<0, 1>>
    ELSE <<0, 0>>

(* Variant: a missing heart rate counts as concerning *)
CheckHeartRate_MissingConcerning(v) ==
    IF v = None THEN <<0, 1>>
    ELSE IF Lt(v, heart_rate_concerning_min) \/ Gt(v, heart_rate_concerning_max)
         THEN <<1, 0>>
    ELSE IF Lt(v, heart_rate_normal_min) \/ Gt(v, heart_rate_normal_max)
         THEN <<0, 1>>
    ELSE <<0, 0>>

CheckHeartRate(v) ==
    IF v = None THEN <<0, 0>>
    ELSE IF Lt(v, heart_rate_concerning_min) \/ Gt(v, heart_rate_concerning_max)
         THEN <<1, 0>>
    ELSE IF Lt(v, heart_rate_normal_min) \/ Gt(v, heart_rate_normal_max)
         THEN <<0, 1>>
    ELSE <<0, 0>>

(* 37.2 itself taken as above the normal maximum *)
CheckBodyTemperature_Strict(v) ==
    IF v = None THEN <<0, 0>>
    ELSE IF Lt(v, temp_concerning_min) \/ Gt(v, temp_concerning_max)
         THEN <<1, 0>>
    ELSE IF Lt(v, temp_normal_min) \/ Ge(v, temp_normal_max)
         THEN <<0, 1>>
    ELSE <<0, 0>>

(* the high side of the critical test left out *)
CheckBodyTemperature_NoFever(v) ==
    IF v = None THEN <<0, 0>>
    ELSE IF Lt(v, temp_concerning_min)
         THEN <<1, 0>>
    ELSE IF Lt(v, temp_normal_min) \/ Gt(v, temp_normal_max)
         THEN <<0, 1>>
    ELSE <<0, 0>>

CheckBodyTemperature(v) ==
    IF v = None THEN <<0, 0>>
    ELSE IF Lt(v, temp_concerning_min) \/ Gt(v, temp_concerning_max)
         THEN <<1, 0>>
    ELSE IF Lt(v, temp_normal_min) \/ Gt(v, temp_normal_max)
         THEN <<0, 1>>
    ELSE <<0, 0>>

(* the two branches in the wrong order *)
DeterminePrediction_ConcerningFirst(critical_count, concerning_count) ==
    IF concerning_count > 0 THEN 1
    ELSE IF critical_count > 0 THEN 2
    ELSE 0

DeterminePrediction(critical_count, concerning_count) ==
    IF critical_count > 0 THEN 2
    ELSE IF concerning_count > 0 THEN 1
    ELSE 0

PredictHealthStatus(s, h, t) ==
    LET a == CheckSpO2(s)
        b == CheckHeartRate(h)
        c == CheckBodyTemperature(t)
        critical_count   == a[1] + b[1] + c[1]
        concerning_count == a[2] + b[2] + c[2]
    IN  DeterminePrediction(critical_count, concerning_count)

(* the last two levels swapped *)
MapPredictionToRiskLevel_Swapped(prediction_result) ==
    IF prediction_result = 0 THEN LOW
    ELSE IF prediction_result = 1 THEN HIGH
    ELSE MEDIUM

(* HealthPredictionService._map_prediction_to_risk_level *)
MapPredictionToRiskLevel(prediction_result) ==
    IF prediction_result = 0 THEN LOW
    ELSE IF prediction_result = 1 THEN MEDIUM
    ELSE HIGH

(* only the vitals outside their critical band counted as available *)
ConfidenceScore_NotCritical(s, h, t) ==
    LET available_params ==
            (IF s # None /\ CheckSpO2(s)[1] = 0 THEN 1 ELSE 0)
          + (IF h # None /\ CheckHeartRate(h)[1] = 0 THEN 1 ELSE 0)
          + (IF t # None /\ CheckBodyTemperature(t)[1] = 0 THEN 1 ELSE 0)
    IN  FracDiv(Float(available_params * 1000), 3)

(* predict_health_status: available_params / 3.0 *)
ConfidenceScore(s, h, t) ==
    LET available_params ==
            (IF s # None THEN 1 ELSE 0) + (IF h # None THEN 1 ELSE 0)
          + (IF t # None THEN 1 ELSE 0)
    IN  FracDiv(Float(available_params * 1000), 3)

-----------------------------------------------------------------------------
(* HealthPredictionService._generate_metric_averages                       *)
(* health_score 1.0 / 0.5 / 0.0 is kept in thousandths.                    *)

MetricAverage(mt, v, unit, healthy, score) ==
    [metric_type |-> mt, average_value |-> v, unit |-> unit,
     data_points |-> 1, is_healthy |-> healthy, health_score |-> score]

Spo2Average(v) ==
    LET is_healthy == Ge(v, spo2_normal_min)
        health_score == IF is_healthy THEN 1000
                        ELSE IF Ge(v, spo2_concerning_min) THEN 500 ELSE 0
    IN  MetricAverage("spo2", v, "%", is_healthy, health_score)

(* Variant: the ends of the concerning range score as critical *)
HeartRateAverage_Strict(v) ==
    LET is_healthy == Le(v, heart_rate_normal_max) /\ Ge(v, heart_rate_normal_min)
        health_score == IF is_healthy THEN 1000
                        ELSE IF Gt(v, heart_rate_concerning_min)
                                /\ Lt(v, heart_rate_concerning_max)
                             THEN 500 ELSE 0
    IN  MetricAverage("heart_rate", v, "bpm", is_healthy, health_score)

HeartRateAverage(v) ==
    LET is_healthy == Le(v, heart_rate_normal_max) /\ Ge(v, heart_rate_normal_min)
        health_score == IF is_healthy THEN 1000
                        ELSE IF Ge(v, heart_rate_concerning_min)
                                /\ Le(v, heart_rate_concerning_max)
                             THEN 500 ELSE 0
    IN  MetricAverage("heart_rate", v, "bpm", is_healthy, health_score)

(* Variant: the score of the concerning band stops short of its upper end *)
BodyTemperatureAverage_HalfOpen(v) ==
    LET is_healthy == Ge(v, temp_normal_min) /\ Le(v, temp_normal_max)
        health_score == IF is_healthy THEN 1000
                        ELSE IF Ge(v, temp_concerning_min)
                                /\ Lt(v, temp_concerning_max)
                             THEN 500 ELSE 0
    IN  MetricAverage("body_temperature", v, "C", is_healthy, health_score)

BodyTemperatureAverage(v) ==
    LET is_healthy == Ge(v, temp_normal_min) /\ Le(v, temp_normal_max)
        health_score == IF is_healthy THEN 1000
                        ELSE IF Ge(v, temp_concerning_min)
                                /\ Le(v, temp_concerning_max)
                             THEN 500 ELSE 0
    IN  MetricAverage("body_temperature", v, "C", is_healthy, health_score)

GenerateMetricAverages(s, h, t) ==
       (IF s # None THEN <<Spo2Average(s)>> ELSE <<>>)
    \o (IF h # None THEN <<HeartRateAverage(h)>> ELSE <<>>)
    \o (IF t # None THEN <<BodyTemperatureAverage(t)>> ELSE <<>>)

-----------------------------------------------------------------------------
(* HealthPredictionService._generate_risk_analysis                         *)
(* A risk factor f"Low SpO2 level ({spo2}%)" is the pair of its text and   *)
(* the value formatted into it.  Each block yields                         *)
(* <<risk_factors, recommendations>> it appends.                           *)

RiskFactor(text, v) == [text |-> text, value |-> v]

AllNormalRecommendation ==
    "All health parameters are within normal ranges. Continue monitoring."

(* Variant: every low SpO2 gets the directive of the critical band *)
Spo2Risk_AlwaysImmediate(v) ==
    IF v # None /\ Lt(v, spo2_normal_min)
    THEN <<  <<RiskFactor("Low SpO2 level", v)>>,
             <<"Seek immediate medical attention for low oxygen levels">>  >>
    ELSE <<  <<>>, <<>>  >>

Spo2Risk(v) ==
    IF v # None /\ Lt(v, spo2_normal_min)
    THEN <<  <<RiskFactor("Low SpO2 level", v)>>,
             IF Lt(v, spo2_concerning_min)
             THEN <<"Seek immediate medical attention for low oxygen levels">>
             ELSE <<"Monitor oxygen levels and rest">>  >>
    ELSE <<  <<>>, <<>>  >>

HeartRateRisk(v) ==
    IF v = None THEN <<  <<>>, <<>>  >>
    ELSE IF Lt(v, heart_rate_normal_min)
    THEN <<  <<RiskFactor("Low heart rate", v)>>,
             IF Lt(v, heart_rate_concerning_min)
             THEN <<"Seek immediate medical attention for bradycardia">>
             ELSE <<"Monitor heart rate and avoid strenuous activity">>  >>
    ELSE IF Gt(v, heart_rate_normal_max)
    THEN <<  <<RiskFactor("High heart rate", v)>>,
             IF Gt(v, heart_rate_concerning_max)
             THEN <<"Seek immediate medical attention for tachycardia">>
             ELSE <<"Rest and monitor heart rate">>  >>
    ELSE <<  <<>>, <<>>  >>

(* Variant: a concerning temperature gets a risk factor and no directive *)
BodyTemperatureRisk_FactorOnly(v) ==
    IF v = None THEN <<  <<>>, <<>>  >>
    ELSE IF Lt(v, temp_normal_min)
    THEN <<  <<RiskFactor("Low body temperature", v)>>,
             IF Lt(v, temp_concerning_min)
             THEN <<"Seek immediate medical attention for hypothermia">>
             ELSE <<>>  >>
    ELSE IF Gt(v, temp_normal_max)
    THEN <<  <<RiskFactor("High body temperature", v)>>,
             IF Gt(v, temp_concerning_max)
             THEN <<"Seek immediate medical attention for fever">>
             ELSE <<>>  >>
    ELSE <<  <<>>, <<>>  >>

BodyTemperatureRisk(v) ==
    IF v = None THEN <<  <<>>, <<>>  >>
    ELSE IF Lt(v, temp_normal_min)
    THEN <<  <<RiskFactor("Low body temperature", v)>>,
             IF Lt(v, temp_concerning_min)
             THEN <<"Seek immediate medical attention for hypothermia">>
             ELSE <<"Warm up and monitor temperature">>  >>
    ELSE IF Gt(v, temp_normal_max)
    THEN <<  <<RiskFactor("High body temperature", v)>>,
             IF Gt(v, temp_concerning_max)
             THEN <<"Seek immediate medical attention for fever">>
             ELSE <<"Rest, hydrate, and monitor temperature">>  >>
    ELSE <<  <<>>, <<>>  >>

(* Variant: the affirmation is added to every analysis *)
GenerateRiskAnalysis_AlwaysAffirms(prediction_result, s, h, t) ==
    LET a == Spo2Risk(s)
        b == HeartRateRisk(h)
        c == BodyTemperatureRisk(t)
    IN  << a[1] \o b[1] \o c[1],
           <<AllNormalRecommendation>> \o a[2] \o b[2] \o c[2] >>

(* Variant: the temperature block runs before the other two *)
GenerateRiskAnalysis_TemperatureFirst(prediction_result, s, h, t) ==
    IF prediction_result = 0
    THEN <<  <<>>, <<AllNormalRecommendation>>  >>
    ELSE LET a == Spo2Risk(s)
             b == HeartRateRisk(h)
             c == BodyTemperatureRisk(t)
         IN  << c[1] \o a[1] \o b[1], c[2] \o a[2] \o b[2] >>

GenerateRiskAnalysis(prediction_result, s, h, t) ==
    IF prediction_result = 0
    THEN <<  <<>>, <<AllNormalRecommendation>>  >>
    ELSE LET a == Spo2Risk(s)
             b == HeartRateRisk(h)
             c == BodyTemperatureRisk(t)
         IN  << a[1] \o b[1] \o c[1], a[2] \o b[2] \o c[2] >>

-----------------------------------------------------------------------------
(* predict_health_status, lines 216-246: the response built from the       *)
(* resolved vitals.  prediction_timestamp is the clock at construction.    *)

ModelVersion == "v3.0.0-multi-parameter"

(* the loaded model consulted: with a model, its answer replaces the rules *)
BuildResponse_UsesModel(req, model, s, h, t, clock) ==
    LET prediction_result == IF model # None THEN 0
                             ELSE PredictHealthStatus(s, h, t)
        analysis == GenerateRiskAnalysis(prediction_result, s, h, t)
    IN  [user_id                  |-> req.user_id,
         prediction_timestamp     |-> clock,
         prediction_result        |-> prediction_result,
         health_risk_level        |-> MapPredictionToRiskLevel(prediction_result),
         confidence_score         |-> ConfidenceScore(s, h, t),
         metric_averages          |-> GenerateMetricAverages(s, h, t),
         risk_factors             |-> analysis[1],
         recommendations          |-> analysis[2],
         raw_metrics_summary      |-> None,
         model_version            |-> ModelVersion,
         prediction_horizon_hours |-> IF req.prediction_horizon_hours = None
                                         \/ req.prediction_horizon_hours = Some(0)
                                      THEN DefaultHorizon
                                      ELSE req.prediction_horizon_hours.int]

(* Variant: a horizon beyond the lookback window lowers the confidence *)
BuildResponse_HorizonInConfidence(req, model, s, h, t, clock) ==
    LET prediction_result == PredictHealthStatus(s, h, t)
        analysis == GenerateRiskAnalysis(prediction_result, s, h, t)
        horizon == IF req.prediction_horizon_hours = None
                      \/ req.prediction_horizon_hours = Some(0)
                   THEN DefaultHorizon
                   ELSE req.prediction_horizon_hours.int
    IN  [user_id                  |-> req.user_id,
         prediction_timestamp     |-> clock,
         prediction_result        |-> prediction_result,
         health_risk_level        |-> MapPredictionToRiskLevel(prediction_result),
         confidence_score         |-> IF horizon > WindowHours THEN Float(0)
                                      ELSE ConfidenceScore(s, h, t),
         metric_averages          |-> GenerateMetricAverages(s, h, t),
         risk_factors             |-> analysis[1],
         recommendations          |-> analysis[2],
         raw_metrics_summary      |-> None,
         model_version            |-> ModelVersion,
         prediction_horizon_hours |-> horizon]

BuildResponse(req, model, s, h, t, clock) ==
    LET prediction_result == PredictHealthStatus(s, h, t)
        analysis == GenerateRiskAnalysis(prediction_result, s, h, t)
    IN  [user_id                  |-> req.user_id,
         prediction_timestamp     |-> clock,
         prediction_result        |-> prediction_result,
         health_risk_level        |-> MapPredictionToRiskLevel(prediction_result),
         confidence_score         |-> ConfidenceScore(s, h, t),
         metric_averages          |-> GenerateMetricAverages(s, h, t),
         risk_factors             |-> analysis[1],
         recommendations          |-> analysis[2],
         raw_metrics_summary      |-> None,
         model_version            |-> ModelVersion,
         prediction_horizon_hours |-> IF req.prediction_horizon_hours = None
                                         \/ req.prediction_horizon_hours = Some(0)
                                      THEN DefaultHorizon
                                      ELSE req.prediction_horizon_hours.int]

-----------------------------------------------------------------------------
(* app/repositories/metric_repository.py                                   *)

Metric(id, user_id, metric_type, value, timestamp) ==
    [id |-> id, user_id |-> user_id, metric_type |-> metric_type,
     value |-> value, timestamp |-> timestamp, deleted_at |-> None]

(* MetricRepository._validate_user_exists: TRUE when it does not raise *)
ValidateUserExists(table, user_id) == table[user_id] = "active"

(* ORDER BY timestamp DESC of the rows whose positions are in S; rows of   *)
(* equal timestamp come in insertion order.                                *)
OrderByTimestampDesc(table, S) ==
    LET before == [i \in S |->
                      Cardinality({j \in S :
                          \/ table[j].timestamp > table[i].timestamp
                          \/ /\ table[j].timestamp = table[i].timestamp
                             /\ j < i})]
    IN  [p \in 1..Cardinality(S) |->
            table[CHOOSE i \in S : before[i] = p - 1]]

(* Variant: the query leaves out the filter on the user *)
GetUserMetrics_AnyUser(table, user_id, metric_type, start_date, end_date, skip, limit) ==
    LET S == {i \in 1..Len(table) :
                /\ table[i].deleted_at = None
                /\ table[i].metric_type = metric_type
                /\ table[i].timestamp >= start_date
                /\ table[i].timestamp <= end_date}
        ordered == OrderByTimestampDesc(table, S)
        last == IF Len(ordered) < skip + limit THEN Len(ordered) ELSE skip + limit
    IN  SubSeq(ordered, skip + 1, last)

(* Variant: the query also returns the soft-deleted rows *)
GetUserMetrics_WithDeleted(table, user_id, metric_type, start_date, end_date, skip, limit) ==
    LET S == {i \in 1..Len(table) :
                /\ table[i].user_id = user_id
                /\ table[i].metric_type = metric_type
                /\ table[i].timestamp >= start_date
                /\ table[i].timestamp <= end_date}
        ordered == OrderByTimestampDesc(table, S)
        last == IF Len(ordered) < skip + limit THEN Len(ordered) ELSE skip + limit
    IN  SubSeq(ordered, skip + 1, last)

(* MetricRepository.get_user_metrics *)
GetUserMetrics(table, user_id, metric_type, start_date, end_date, skip, limit) ==
    LET S == {i \in 1..Len(table) :
                /\ table[i].user_id = user_id
                /\ table[i].deleted_at = None
                /\ table[i].metric_type = metric_type
                /\ table[i].timestamp >= start_date
                /\ table[i].timestamp <= end_date}
        ordered == OrderByTimestampDesc(table, S)
        last == IF Len(ordered) < skip + limit THEN Len(ordered) ELSE skip + limit
    IN  SubSeq(ordered, skip + 1, last)

-----------------------------------------------------------------------------
(* HealthPredictionService._get_metric_from_db                             *)
(* float(str(m.value)) gives back the float m.value: str of a float is its *)
(* shortest repr, which float parses to the same double.                   *)

RECURSIVE Sum(_)
Sum(values) ==
    IF values = <<>> THEN Float(0)
    ELSE IF Len(values) = 1 THEN values[1]
    ELSE LET half == Len(values) \div 2
         IN  FracAdd(Sum(SubSeq(values, 1, half)),
                     Sum(SubSeq(values, half + 1, Len(values))))

GetMetricFromDb(table, clock, user_id, metric_type, store_raises) ==
    IF store_raises THEN None
    ELSE LET end_time   == clock
             start_time == end_time - WindowHours
             found == GetUserMetrics(table, user_id, metric_type,
                                     start_time, end_time, 0, DefaultLimit)
             metrics_with_values == SelectSeq(found, LAMBDA m : m.value # None)
             values == [i \in 1..Len(metrics_with_values) |->
                            metrics_with_values[i].value]
         IN  IF Len(values) > 0 THEN FracDiv(Sum(values), Len(values))
                                ELSE None

(* The record _get_metric_from_db gives to the logger: line 125 when it    *)
(* found values, line 128 when it found none, line 132 when the store      *)
(* raised.  created is LogRecord.created.                                  *)
LookupRecord(table, clock, user_id, metric_type, store_raises) ==
    LET average == GetMetricFromDb(table, clock, user_id, metric_type, store_raises)
    IN  [level       |-> IF store_raises THEN "error"
                         ELSE IF average = None THEN "warning" ELSE "info",
         metric_type |-> metric_type,
         average     |-> average,
         created     |-> clock]

(* logger.error of line 254 *)
PredictionFailedRecord(clock) ==
    [level |-> "error", metric_type |-> "prediction", average |-> None,
     created |-> clock]

-----------------------------------------------------------------------------
(* State *)

NoRequest == [none |-> TRUE]
NoOutcome == [kind |-> "none"]

(* A call that is not in progress, as the record of its variables *)
Idle == [pc |-> "idle", request |-> NoRequest, ml_model |-> None,
         spo2 |-> None, heart_rate |-> None, body_temperature |-> None,
         outcome |-> NoOutcome, log |-> <<>>]

Init ==
    /\ users = [u \in Users |-> "none"]
    /\ metrics = <<>>
    /\ now = 0
    /\ pc = "idle"
    /\ request = NoRequest
    /\ ml_model = None
    /\ spo2 = None
    /\ heart_rate = None
    /\ body_temperature = None
    /\ outcome = NoOutcome
    /\ log = <<>>
    /\ prev = None
    /\ other = Idle
    /\ accounts = [u \in Users |-> None]
    /\ tokens = {}
    /\ blacklist = {}
    /\ reply = None

-----------------------------------------------------------------------------
(* The store, as the engine's environment changes it *)

(* UserRepository.create_user: a row with a fresh id *)
CreateUser(u) ==
    /\ users[u] = "none"
    /\ users' = [users EXCEPT ![u] = "active"]
    /\ UNCHANGED <<metrics, now, call, prev, other, auth>>

(* UserRepository.delete_user: soft delete *)
DeleteUser(u) ==
    /\ users[u] = "active"
    /\ users' = [users EXCEPT ![u] = "deleted"]
    /\ UNCHANGED <<metrics, now, call, prev, other, auth>>

(* MetricRepository.create_metric; MetricBase.validate_timestamp rejects a *)
(* timestamp in the future, an unset one becomes the clock.                *)
CreateMetric(u, mt, v, ts) ==
    /\ Len(metrics) < MaxMetrics
    /\ ValidateUserExists(users, u)
    /\ IF ts = None THEN TRUE ELSE ts.int <= now
    /\ metrics' = Append(metrics,
                         Metric(Len(metrics) + 1, u, mt, v,
                                IF ts = None THEN now ELSE ts.int))
    /\ UNCHANGED <<users, now, call, prev, other, auth>>

(* MetricRepository.delete_metric on get_metric_by_id: the row of that id, *)
(* of that user and not yet deleted gets deleted_at; no row, no change.    *)
DeleteMetric(metric_id, user_id) ==
    /\ \E i \in 1..Len(metrics) :
          /\ metrics[i].id = metric_id
          /\ metrics[i].deleted_at = None
          /\ metrics[i].user_id = user_id
    /\ metrics' = [i \in 1..Len(metrics) |->
                      IF metrics[i].id = metric_id
                      THEN [metrics[i] EXCEPT !.deleted_at = Some(now)]
                      ELSE metrics[i]]
    /\ UNCHANGED <<users, now, call, prev, other, auth>>

(* MetricCreate, app/schemas/metric.py *)
MetricCreate(mt, v, ts) == [metric_type |-> mt, value |-> v, timestamp |-> ts]

(* MetricBatchCreate admits 1 to 1000 metrics in a batch *)
MinBatch == 1
MaxBatch == 1000

(* MetricRepository.create_metrics_batch: one row per entry, in order, all *)
(* committed together; an unset timestamp becomes the clock.               *)
CreateMetricsBatch(u, metrics_data) ==
    /\ Len(metrics_data) \in MinBatch..MaxBatch
    /\ Len(metrics) + Len(metrics_data) <= MaxRows
    /\ ValidateUserExists(users, u)
    /\ \A i \in 1..Len(metrics_data) :
          IF metrics_data[i].timestamp = None THEN TRUE
          ELSE metrics_data[i].timestamp.int <= now
    /\ metrics' = metrics \o
          [i \in 1..Len(metrics_data) |->
              Metric(Len(metrics) + i, u, metrics_data[i].metric_type,
                     metrics_data[i].value,
                     IF metrics_data[i].timestamp = None THEN now
                     ELSE metrics_data[i].timestamp.int)]
    /\ UNCHANGED <<users, now, call, prev, other, auth>>

Tick(hours) ==
    /\ now + hours <= MaxTime
    /\ now' = now + hours
    /\ UNCHANGED <<store, call, prev, other, auth>>

-----------------------------------------------------------------------------
(* HealthPredictionService.predict_health_status, one step per store read  *)

HealthPredictionRequest(u, s, h, t, horizon) ==
    [user_id |-> u, spo2 |-> s, heart_rate |-> h, body_temperature |-> t,
     include_metrics |-> FALSE, prediction_horizon_hours |-> horizon]

(* routes/metrics.py builds the service, whose __init__ loads the pickled  *)
(* model or leaves None, and calls predict_health_status(request).         *)
Begin(req, model) ==
    /\ pc = "idle"
    /\ pc' = "spo2"
    /\ request' = req
    /\ ml_model' = model
    /\ spo2' = None
    /\ heart_rate' = None
    /\ body_temperature' = None
    /\ outcome' = NoOutcome
    /\ log' = <<>>
    /\ UNCHANGED <<store, now, prev, other, auth>>

(* store_raises tells whether the store would raise if it were asked now;  *)
(* a vital that the request gives is not asked for.                        *)

(* Variant: a given SpO2 of 0 is taken as not given *)
ResolveSpo2_ZeroIsUnset(store_raises) ==
    /\ pc = "spo2"
    /\ spo2' = IF request.spo2 = None \/ request.spo2 = Float(0)
               THEN GetMetricFromDb(metrics, now, request.user_id, SPO2, store_raises)
               ELSE request.spo2
    /\ log' = IF request.spo2 = None \/ request.spo2 = Float(0)
              THEN Append(log, LookupRecord(metrics, now, request.user_id, SPO2,
                                            store_raises))
              ELSE log
    /\ pc' = "heart_rate"
    /\ UNCHANGED <<store, now, request, ml_model, heart_rate, body_temperature,
                   outcome, prev, other, auth>>

(* _get_health_parameters, lines 80, 85-86 *)
ResolveSpo2(store_raises) ==
    /\ pc = "spo2"
    /\ spo2' = IF request.spo2 = None
               THEN GetMetricFromDb(metrics, now, request.user_id, SPO2, store_raises)
               ELSE request.spo2
    /\ log' = IF request.spo2 = None
              THEN Append(log, LookupRecord(metrics, now, request.user_id, SPO2,
                                            store_raises))
              ELSE log
    /\ pc' = "heart_rate"
    /\ UNCHANGED <<store, now, request, ml_model, heart_rate, body_temperature,
                   outcome, prev, other, auth>>

(* Variant: a failure of the lookup before spills over to this one *)
ResolveHeartRate_Spilled(store_raises) ==
    /\ pc = "heart_rate"
    /\ heart_rate' = IF request.heart_rate = None
                     THEN GetMetricFromDb(metrics, now, request.user_id,
                                          HEART_RATE,
                                          store_raises \/ (Len(log) > 0 /\ log[Len(log)].level = "error"))
                     ELSE request.heart_rate
    /\ log' = IF request.heart_rate = None
              THEN Append(log, LookupRecord(metrics, now, request.user_id,
                                            HEART_RATE, store_raises))
              ELSE log
    /\ pc' = "body_temperature"
    /\ UNCHANGED <<store, now, request, ml_model, spo2, body_temperature,
                   outcome, prev, other, auth>>

(* _get_health_parameters, lines 81, 88-89 *)
ResolveHeartRate(store_raises) ==
    /\ pc = "heart_rate"
    /\ heart_rate' = IF request.heart_rate = None
                     THEN GetMetricFromDb(metrics, now, request.user_id,
                                          HEART_RATE, store_raises)
                     ELSE request.heart_rate
    /\ log' = IF request.heart_rate = None
              THEN Append(log, LookupRecord(metrics, now, request.user_id,
                                            HEART_RATE, store_raises))
              ELSE log
    /\ pc' = "body_temperature"
    /\ UNCHANGED <<store, now, request, ml_model, spo2, body_temperature,
                   outcome, prev, other, auth>>

(* _get_health_parameters, lines 82, 91-94 *)
ResolveBodyTemperature(store_raises) ==
    /\ pc = "body_temperature"
    /\ body_temperature' = IF request.body_temperature = None
                           THEN GetMetricFromDb(metrics, now, request.user_id,
                                                SKIN_TEMPERATURE, store_raises)
                           ELSE request.body_temperature
    /\ log' = IF request.body_temperature = None
              THEN Append(log, LookupRecord(metrics, now, request.user_id,
                                            SKIN_TEMPERATURE, store_raises))
              ELSE log
    /\ pc' = "predict"
    /\ UNCHANGED <<store, now, request, ml_model, spo2, heart_rate,
                   outcome, prev, other, auth>>

(* Variant: the defect is swallowed into a default response *)
PredictOutcome_Swallowed(req, model, s, h, t, clock, defect) ==
    [kind |-> "response",
     response |-> IF defect THEN BuildResponse(req, None, None, None, None, clock)
                  ELSE BuildResponse(req, model, s, h, t, clock)]

(* predict_health_status, lines 216-255.  Nothing of lines 216-246 raises  *)
(* on its own and nothing raises UserNotFoundException; defect stands for  *)
(* an unexpected exception in these lines, which the handler of lines      *)
(* 253-255 logs and raises again.                                          *)
PredictOutcome(req, model, s, h, t, clock, defect) ==
    IF defect
    THEN [kind |-> "error"]
    ELSE [kind |-> "response",
          response |-> BuildResponse(req, model, s, h, t, clock)]

(* Variant: the prediction is kept as a row of the metrics table *)
Predict_Persisting(defect) ==
    /\ pc = "predict"
    /\ outcome' = PredictOutcome(request, ml_model, spo2, heart_rate,
                                 body_temperature, now, defect)
    /\ log' = IF defect THEN Append(log, PredictionFailedRecord(now)) ELSE log
    /\ pc' = "done"
    /\ metrics' = Append(metrics,
                         Metric(Len(metrics) + 1, request.user_id, SPO2, spo2, now))
    /\ UNCHANGED <<users, now, request, ml_model, spo2, heart_rate,
                   body_temperature, prev, other, auth>>

Predict(defect) ==
    /\ pc = "predict"
    /\ outcome' = PredictOutcome(request, ml_model, spo2, heart_rate,
                                 body_temperature, now, defect)
    /\ log' = IF defect THEN Append(log, PredictionFailedRecord(now)) ELSE log
    /\ pc' = "done"
    /\ UNCHANGED <<store, now, request, ml_model, spo2, heart_rate,
                   body_temperature, prev, other, auth>>

(* What a caller can tell of a completed call *)
Observation ==
    [ml_model |-> ml_model,
     spo2 |-> spo2, heart_rate |-> heart_rate,
     body_temperature |-> body_temperature,
     result |-> [f \in {"prediction_result", "health_risk_level",
                        "confidence_score", "metric_averages",
                        "risk_factors", "recommendations"} |->
                    outcome.response[f]]]

(* The caller takes the outcome; the service instance is dropped. *)
Return(record) ==
    /\ pc = "done"
    /\ pc' = "idle"
    /\ request' = NoRequest
    /\ ml_model' = None
    /\ spo2' = None
    /\ heart_rate' = None
    /\ body_temperature' = None
    /\ outcome' = NoOutcome
    /\ log' = <<>>
    /\ prev' = IF record THEN Observation ELSE prev
    /\ UNCHANGED <<store, now, other, auth>>

-----------------------------------------------------------------------------
(* Inputs.  Vitals are drawn around every threshold, one thousandth apart. *)

Loaded == [loaded |-> TRUE]             \* the unpickled ml/model.pkl
Models == {None, Loaded}

Spo2Values == {0, 85000, 89999, 90000, 94999, 95000, 97000, 100000}
HeartRateValues == {0, 39999, 40000, 59999, 60000, 75000, 100000, 100001,
                    120000, 120001}
TemperatureValues == {34999, 35000, 36099, 36100, 36500, 37200, 37201,
                      38000, 38001}

Optional(S) == {None} \cup {Float(k) : k \in S}

VitalRequests ==
    {HealthPredictionRequest("u1", s, h, t, Some(DefaultHorizon)) :
        s \in Optional(Spo2Values), h \in Optional(HeartRateValues),
        t \in Optional(TemperatureValues)}

StoreRequests ==
    {HealthPredictionRequest(u, s, h, t, Some(DefaultHorizon)) :
        u \in Users, s \in Optional({92000}), h \in {None}, t \in {None}}

StoredValues(mt) ==
    CASE mt = SPO2             -> Optional({88000})
      [] mt = HEART_RATE       -> {Float(110000)}
      [] mt = SKIN_TEMPERATURE -> {Float(36500)}

(* The three lookups in their order, each raising or not as F allows *)
StepResolve(F) ==
    \/ \E f \in F : ResolveSpo2(f)
    \/ \E f \in F : ResolveHeartRate(f)
    \/ \E f \in F : ResolveBodyTemperature(f)

StepCall ==
    \/ StepResolve(BOOLEAN)
    \/ Predict(FALSE)

(* The engine alone, on requests that give the vitals themselves or leave  *)
(* them to an empty store.                                                 *)
NextVitals ==
    \/ \E req \in VitalRequests, m \in Models : Begin(req, m)
    \/ StepCall
    \/ Return(FALSE)

SpecVitals == Init /\ [][NextVitals]_vars

(* The engine against a store that users, devices and time change.         *)
StepStore ==
    \/ \E u \in Users : CreateUser(u)
    \/ \E u \in Users : DeleteUser(u)
    \/ \E u \in Users, mt \in MetricType :
          \E v \in StoredValues(mt) : CreateMetric(u, mt, v, None)
    \/ Tick(TickHours)

Next ==
    \/ StepStore
    \/ \E req \in StoreRequests : Begin(req, None)
    \/ StepResolve({FALSE})
    \/ Predict(FALSE)
    \/ Return(FALSE)

Spec == Init /\ [][Next]_vars

(* Two calls in a row, the first one remembered when the second returns.   *)
PairRequests ==
    {HealthPredictionRequest("u1", s, h, t, Some(DefaultHorizon)) :
        s \in Optional({85000, 92000, 97000}),
        h \in Optional({30000, 50000, 75000, 110000, 130000}),
        t \in Optional({34000, 35500, 36500, 37500, 39000})}

NextPair ==
    \/ \E req \in PairRequests, m \in Models : Begin(req, m)
    \/ StepCall
    \/ Return(TRUE)

SpecPair == Init /\ [][NextPair]_vars

(* Calls over the whole range of horizons that the request schema admits,  *)
(* against readings that age out of the lookback window.                   *)
MinHorizonHours == 1
MaxHorizonHours == 168

HorizonRequests ==
    {HealthPredictionRequest("u1", None, None, None, horizon) :
        horizon \in {None} \cup {Some(k) : k \in MinHorizonHours..MaxHorizonHours}}

NextHorizon ==
    \/ CreateUser("u1")
    \/ CreateMetric("u1", SPO2, Float(88000), None)
    \/ Tick(TickHours)
    \/ \E req \in HorizonRequests : Begin(req, None)
    \/ StepResolve({FALSE})
    \/ Predict(FALSE)
    \/ Return(FALSE)

SpecHorizon == Init /\ [][NextHorizon]_vars

(* Two requests at once.  Each request has its own session and its own     *)
(* HealthPredictionService (routes/metrics.py, lines 183 and 210), so a     *)
(* call is its own copy of the call variables: other holds the call that   *)
(* is not running, and Switch hands the processor to it between any two    *)
(* steps.  The store is written only while no call is in flight.           *)
Running ==
    [pc |-> pc, request |-> request, ml_model |-> ml_model,
     spo2 |-> spo2, heart_rate |-> heart_rate,
     body_temperature |-> body_temperature,
     outcome |-> outcome, log |-> log]

Switch ==
    /\ pc # "idle" \/ other.pc # "idle"
    /\ other' = Running
    /\ pc' = other.pc
    /\ request' = other.request
    /\ ml_model' = other.ml_model
    /\ spo2' = other.spo2
    /\ heart_rate' = other.heart_rate
    /\ body_temperature' = other.body_temperature
    /\ outcome' = other.outcome
    /\ log' = other.log
    /\ UNCHANGED <<store, now, prev, auth>>

ConcurrentRequests ==
    {HealthPredictionRequest(u, s, None, None, Some(DefaultHorizon)) :
        u \in Users, s \in Optional({92000})}

NoCallInFlight == pc = "idle" /\ other.pc = "idle"

NextConcurrent ==
    \/ \E u \in Users : NoCallInFlight /\ CreateUser(u)
    \/ \E u \in Users, v \in {Float(88000), Float(97000)} :
          NoCallInFlight /\ CreateMetric(u, SPO2, v, None)
    \/ \E u \in Users :
          NoCallInFlight /\ CreateMetric(u, HEART_RATE, Float(110000), None)
    \/ \E req \in ConcurrentRequests : Begin(req, None)
    \/ StepResolve({FALSE})
    \/ Predict(FALSE)
    \/ Return(FALSE)
    \/ Switch

SpecConcurrent == Init /\ [][NextConcurrent]_vars

(* A bracelet that uploads its readings in batches, up to more readings in *)
(* one lookback window than one page of get_user_metrics holds.            *)
BatchSizes == {DefaultLimit - 1, DefaultLimit}

Batch(mt, v, n) == [i \in 1..n |-> MetricCreate(mt, v, None)]

NextBulk ==
    \/ CreateUser("u1")
    \/ \E v \in {Float(88000), Float(97000)} : CreateMetric("u1", SPO2, v, None)
    \/ \E n \in BatchSizes :
          CreateMetricsBatch("u1", Batch(SPO2, Float(97000), n))
    \/ Tick(TickHours)
    \/ Begin(HealthPredictionRequest("u1", None, None, None, Some(DefaultHorizon)),
             None)
    \/ StepResolve({FALSE})
    \/ Predict(FALSE)
    \/ Return(FALSE)

SpecBulk == Init /\ [][NextBulk]_vars

(* What-if calls: requests that give some or all vitals themselves, 0      *)
(* included, against a store that has readings and may raise.              *)
OverrideRequests ==
    {HealthPredictionRequest("u1", s, h, t, Some(DefaultHorizon)) :
        s \in Optional({0, 92000}), h \in Optional({0, 75000}),
        t \in Optional({0, 36500})}

NextOverride ==
    \/ CreateUser("u1")
    \/ \E mt \in MetricType :
          \E v \in StoredValues(mt) : CreateMetric("u1", mt, v, None)
    \/ \E req \in OverrideRequests : Begin(req, None)
    \/ StepResolve(BOOLEAN)
    \/ Predict(FALSE)
    \/ Return(FALSE)

SpecOverride == Init /\ [][NextOverride]_vars

(* Readings that are deleted again, or that were sent without a value *)
NextDeleted ==
    \/ CreateUser("u1")
    \/ \E v \in Optional({88000, 97000}) : CreateMetric("u1", SPO2, v, None)
    \/ \E metric_id \in 1..MaxMetrics : DeleteMetric(metric_id, "u1")
    \/ Tick(TickHours)
    \/ Begin(HealthPredictionRequest("u1", None, None, None, Some(DefaultHorizon)),
             None)
    \/ StepResolve({FALSE})
    \/ Predict(FALSE)
    \/ Return(FALSE)

SpecDeleted == Init /\ [][NextDeleted]_vars

-----------------------------------------------------------------------------
(* GET /health-prediction, app/api/routes/metrics.py                       *)

(* get_current_user, deps.py lines 59-67, gives the route a user that is   *)
(* in the users table; the route asks for no override.                     *)
GetHealthPrediction(u, horizon, model) ==
    /\ ValidateUserExists(users, u)
    /\ Begin(HealthPredictionRequest(u, None, None, None, horizon), model)

(* lines 220-233: what the route makes of the outcome of the service *)
HTTP_200_OK                    == 200
HTTP_404_NOT_FOUND             == 404
HTTP_500_INTERNAL_SERVER_ERROR == 500

RouteResult(result) ==
    CASE result.kind = "response"  ->
            [status_code |-> HTTP_200_OK, body |-> result.response]
      [] result.kind = "not_found" ->
            [status_code |-> HTTP_404_NOT_FOUND, detail |-> "User not found"]
      [] result.kind = "error"     ->
            [status_code |-> HTTP_500_INTERNAL_SERVER_ERROR,
             detail |-> "An error occurred while generating health prediction"]

(* The endpoint with a store that raises on some lookups, with defects in  *)
(* the service and with users who are deleted while their call runs.       *)
FaultUsers == {"u1"}

NextFaults ==
    \/ \E u \in FaultUsers : CreateUser(u)
    \/ \E u \in FaultUsers : DeleteUser(u)
    \/ \E u \in FaultUsers, mt \in MetricType :
          \E v \in StoredValues(mt) : CreateMetric(u, mt, v, None)
    \/ \E u \in FaultUsers, m \in Models :
          GetHealthPrediction(u, Some(DefaultHorizon), m)
    \/ StepResolve(BOOLEAN)
    \/ \E defect \in BOOLEAN : Predict(defect)
    \/ Return(FALSE)

SpecFaults == Init /\ [][NextFaults]_vars

-----------------------------------------------------------------------------
(* Accounts: app/services/user_service.py on                               *)
(* app/repositories/user_repository.py.  A request is handled in one step, *)
(* which leaves the request and its answer in reply; Deliver hands the     *)
(* answer out before the next request is taken.  A password hash is the    *)
(* password it was made of: verify_password(p, get_password_hash(q)) is    *)
(* p = q.  generate_6_digit_code is random, so a code is any of Codes.     *)

VerificationHours == 24     \* timedelta(hours=24) of a verification code
TokenHours        == 1      \* timedelta(minutes=60) of an access token

Emails    == {"a@x", "b@x"}
Passwords == {"p", "q"}
Codes     == {"111111", "222222"}

Code(c) == [code |-> c]

(* issued and accepted count the codes generated for the row and the       *)
(* number of them generated when a code was last accepted.                 *)
Account(email, password, c, clock) ==
    [email                        |-> email,
     hashed_password              |-> password,
     email_verified_at            |-> None,
     verification_code            |-> Code(c),
     verification_code_expires_at |-> Some(clock + VerificationHours),
     issued                       |-> 1,
     accepted                     |-> 0]

(* UserRepository.get_user_by_email: the rows it can return *)
GetUserByEmail(email) ==
    {u \in Users : /\ users[u] = "active"
                   /\ accounts[u] # None
                   /\ accounts[u].email = email}

(* UserRepository.get_user_by_id *)
GetUserById(u) == users[u] = "active" /\ accounts[u] # None

(* UserService.register_user on UserRepository.create_user; the row stays  *)
(* when the mail could not be sent.                                        *)
RegisterUser(u, email, password, c, email_sent) ==
    /\ reply = None
    /\ users[u] = "none"
    /\ IF GetUserByEmail(email) # {}
       THEN /\ reply' = [request |-> "register_user", email |-> email,
                         result |-> "user_already_exists"]
            /\ UNCHANGED <<users, accounts>>
       ELSE /\ users' = [users EXCEPT ![u] = "active"]
            /\ accounts' = [accounts EXCEPT ![u] = Account(email, password, c, now)]
            /\ reply' = [request |-> "register_user", email |-> email,
                         result |-> IF email_sent THEN "ok"
                                    ELSE "email_sending_failed"]
    /\ UNCHANGED <<metrics, now, call, prev, other, tokens, blacklist>>

(* Variant: an accepted code stays on the row *)
VerifyEmail_CodeKept(email, c) ==
    /\ reply = None
    /\ IF GetUserByEmail(email) = {}
       THEN /\ reply' = [request |-> "verify_email", email |-> email, code |-> c,
                         result |-> "user_not_found"]
            /\ UNCHANGED accounts
       ELSE LET u == CHOOSE x \in GetUserByEmail(email) : TRUE
                user == accounts[u]
            IN  IF /\ user.verification_code = Code(c)
                   /\ user.verification_code_expires_at # None
                   /\ user.verification_code_expires_at.int > now
                THEN /\ accounts' = [accounts EXCEPT ![u] =
                            [user EXCEPT !.email_verified_at = Some(now),
                                         !.accepted = user.issued]]
                     /\ reply' = [request |-> "verify_email", email |-> email,
                                  code |-> c, result |-> "ok"]
                ELSE /\ reply' = [request |-> "verify_email", email |-> email,
                                  code |-> c, result |-> "invalid_credentials"]
                     /\ UNCHANGED accounts
    /\ UNCHANGED <<store, now, call, prev, other, tokens, blacklist>>

(* UserService.verify_email on UserRepository.verify_email *)
VerifyEmail(email, c) ==
    /\ reply = None
    /\ IF GetUserByEmail(email) = {}
       THEN /\ reply' = [request |-> "verify_email", email |-> email, code |-> c,
                         result |-> "user_not_found"]
            /\ UNCHANGED accounts
       ELSE LET u == CHOOSE x \in GetUserByEmail(email) : TRUE
                user == accounts[u]
            IN  IF /\ user.verification_code = Code(c)
                   /\ user.verification_code_expires_at # None
                   /\ user.verification_code_expires_at.int > now
                THEN /\ accounts' = [accounts EXCEPT ![u] =
                            [user EXCEPT !.email_verified_at = Some(now),
                                         !.verification_code = None,
                                         !.verification_code_expires_at = None,
                                         !.accepted = user.issued]]
                     /\ reply' = [request |-> "verify_email", email |-> email,
                                  code |-> c, result |-> "ok"]
                ELSE /\ reply' = [request |-> "verify_email", email |-> email,
                                  code |-> c, result |-> "invalid_credentials"]
                     /\ UNCHANGED accounts
    /\ UNCHANGED <<store, now, call, prev, other, tokens, blacklist>>

(* UserService.resend_verification_code on                                 *)
(* UserRepository.resend_verification_code; an unknown email gets the same *)
(* answer and changes nothing.                                             *)
ResendVerificationCode(email, c, email_sent) ==
    /\ reply = None
    /\ IF GetUserByEmail(email) = {}
       THEN /\ reply' = [request |-> "resend_verification_code",
                         email |-> email, result |-> "ok"]
            /\ UNCHANGED accounts
       ELSE LET u == CHOOSE x \in GetUserByEmail(email) : TRUE
                user == accounts[u]
            IN  /\ user.issued < MaxIssues
                /\ accounts' = [accounts EXCEPT ![u] =
                       [user EXCEPT !.verification_code = Code(c),
                                    !.verification_code_expires_at =
                                        Some(now + VerificationHours),
                                    !.issued = user.issued + 1]]
                /\ reply' = [request |-> "resend_verification_code",
                             email |-> email,
                             result |-> IF email_sent THEN "ok"
                                        ELSE "email_sending_failed"]
    /\ UNCHANGED <<store, now, call, prev, other, tokens, blacklist>>

(* UserService.update_user_profile with an email, on                       *)
(* UserRepository.update_user                                              *)
UpdateUserProfile(u, email, c) ==
    /\ reply = None
    /\ IF \E x \in GetUserByEmail(email) : x # u
       THEN /\ reply' = [request |-> "update_user_profile", user_id |-> u,
                         email |-> email,
                         result |-> "user_already_exists"]
            /\ UNCHANGED accounts
       ELSE IF ~GetUserById(u)
       THEN /\ reply' = [request |-> "update_user_profile", user_id |-> u,
                         email |-> email,
                         result |-> "user_not_found"]
            /\ UNCHANGED accounts
       ELSE /\ accounts[u].issued < MaxIssues
            /\ accounts' = [accounts EXCEPT ![u] =
                   [accounts[u] EXCEPT !.email = email,
                                       !.email_verified_at = None,
                                       !.verification_code = Code(c),
                                       !.verification_code_expires_at =
                                           Some(now + VerificationHours),
                                       !.issued = accounts[u].issued + 1]]
            /\ reply' = [request |-> "update_user_profile", user_id |-> u,
                         email |-> email,
                         result |-> "ok"]
    /\ UNCHANGED <<store, now, call, prev, other, tokens, blacklist>>

(* core/security.py, create_access_token: exp and sub, nothing else *)
CreateAccessToken(subject, expires_delta, clock) ==
    [sub |-> subject, exp |-> clock + expires_delta, jti |-> None]

(* UserService.login_user on authenticate_user *)
LoginUser(email, password) ==
    /\ reply = None
    /\ LET found == {u \in GetUserByEmail(email) :
                        accounts[u].hashed_password = password}
       IN  IF found = {}
           THEN /\ reply' = [request |-> "login_user", email |-> email,
                             password |-> password,
                             result |-> "invalid_credentials"]
                /\ UNCHANGED tokens
           ELSE LET u == CHOOSE x \in found : TRUE
                    access_token == CreateAccessToken(u, TokenHours, now)
                IN  IF accounts[u].email_verified_at = None
                    THEN /\ reply' = [request |-> "login_user", email |-> email,
                                      password |-> password,
                                      result |-> "email_not_verified"]
                         /\ UNCHANGED tokens
                    ELSE /\ tokens' = tokens \cup {access_token}
                         /\ reply' = [request |-> "login_user", email |-> email,
                                      password |-> password, result |-> "ok",
                                      access_token |-> access_token]
    /\ UNCHANGED <<store, now, call, prev, other, accounts, blacklist>>

HTTP_400_BAD_REQUEST  == 400
HTTP_401_UNAUTHORIZED == 401

(* BlacklistService.is_blacklisted: a key set by setex lives until its TTL *)
(* has run out; without the store the answer is False.                     *)
IsBlacklisted(jti, redis_available) ==
    /\ redis_available
    /\ \E entry \in blacklist : entry.jti = jti /\ entry.expires_at > now

(* api/deps.py, get_current_user and get_current_active_user: the status   *)
(* the dependency answers a bearer token with.                             *)
GetCurrentUser(token, redis_available) ==
    IF token.exp < now THEN HTTP_401_UNAUTHORIZED
    ELSE IF token.jti # None /\ IsBlacklisted(token.jti, redis_available)
         THEN HTTP_401_UNAUTHORIZED
    ELSE IF users[token.sub] # "active" THEN HTTP_401_UNAUTHORIZED
    ELSE HTTP_200_OK

(* Any route behind Depends(get_current_user) *)
Authenticated(token, redis_available) ==
    /\ reply = None
    /\ reply' = [request |-> "authenticated", token |-> token,
                 redis_available |-> redis_available,
                 status_code |-> GetCurrentUser(token, redis_available)]
    /\ UNCHANGED <<store, now, call, prev, other, accounts, tokens, blacklist>>

(* POST /logout on BlacklistService.get_token_jti, get_token_expiration    *)
(* and add_to_blacklist                                                    *)
Logout(token, redis_available) ==
    /\ reply = None
    /\ LET answer(code) == [request |-> "logout", token |-> token,
                            redis_available |-> redis_available,
                            status_code |-> code]
       IN  IF GetCurrentUser(token, redis_available) # HTTP_200_OK
           THEN /\ reply' = answer(HTTP_401_UNAUTHORIZED)
                /\ UNCHANGED blacklist
           ELSE IF token.jti = None
           THEN /\ reply' = answer(HTTP_400_BAD_REQUEST)
                /\ UNCHANGED blacklist
           ELSE IF redis_available /\ token.exp > now
           THEN /\ blacklist' = blacklist \cup
                       {[jti |-> token.jti, expires_at |-> token.exp]}
                /\ reply' = answer(HTTP_200_OK)
           ELSE /\ reply' = answer(HTTP_500_INTERNAL_SERVER_ERROR)
                /\ UNCHANGED blacklist
    /\ UNCHANGED <<store, now, call, prev, other, accounts, tokens>>

Deliver ==
    /\ reply # None
    /\ reply' = None
    /\ UNCHANGED <<store, now, call, prev, other, accounts, tokens, blacklist>>

(* Register, verify, log in, then use the token or log out with it *)
NextLogout ==
    \/ \E u \in Users : RegisterUser(u, "a@x", "p", "111111", TRUE)
    \/ \E c \in Codes : VerifyEmail("a@x", c)
    \/ \E password \in Passwords : LoginUser("a@x", password)
    \/ \E token \in tokens : \E redis_available \in BOOLEAN :
          Logout(token, redis_available)
    \/ \E token \in tokens : \E redis_available \in BOOLEAN :
          Authenticated(token, redis_available)
    \/ \E u \in Users : reply = None /\ DeleteUser(u)
    \/ reply = None /\ Tick(TickHours)
    \/ Deliver

SpecLogout == Init /\ [][NextLogout]_vars

(* Accounts of two users through registration, verification, resending,   *)
(* a change of email and login, as the clock passes the expiry of a code.  *)
NextAccount ==
    \/ RegisterUser("u1", "a@x", "p", "111111", TRUE)
    \/ RegisterUser("u2", "b@x", "q", "222222", FALSE)
    \/ \E email \in Emails : \E c \in Codes : VerifyEmail(email, c)
    \/ \E c \in Codes : ResendVerificationCode("a@x", c, TRUE)
    \/ \E email \in Emails : \E c \in Codes : UpdateUserProfile("u1", email, c)
    \/ \E email \in Emails : \E password \in Passwords : LoginUser(email, password)
    \/ reply = None /\ Tick(TickHours)
    \/ Deliver

SpecAccount == Init /\ [][NextAccount]_vars

-----------------------------------------------------------------------------
(* Vocabulary of the properties: the bands of the threshold table, in      *)
(* thousandths, and the response of a completed call.                      *)

Done     == pc = "done"
Returned == Done /\ outcome.kind = "response"
Response == outcome.response

Spo2Band(v) ==
    IF v = None THEN "missing"
    ELSE IF v.num >= 95000 * v.den THEN "normal"
    ELSE IF v.num >= 90000 * v.den THEN "concerning"
    ELSE "critical"

HeartRateBand(v) ==
    IF v = None THEN "missing"
    ELSE IF 60000 * v.den <= v.num /\ v.num <= 100000 * v.den THEN "normal"
    ELSE IF 40000 * v.den <= v.num /\ v.num <= 120000 * v.den THEN "concerning"
    ELSE "critical"

TemperatureBand(v) ==
    IF v = None THEN "missing"
    ELSE IF 36100 * v.den <= v.num /\ v.num <= 37200 * v.den THEN "normal"
    ELSE IF 35000 * v.den <= v.num /\ v.num <= 38000 * v.den THEN "concerning"
    ELSE "critical"

Bands(s, h, t) == {Spo2Band(s), HeartRateBand(h), TemperatureBand(t)}

Severity(band) == CASE band = "critical"   -> 2
                    [] band = "concerning" -> 1
                    [] OTHER               -> 0

LevelOf(result) == CASE result = 2 -> HIGH
                     [] result = 1 -> MEDIUM
                     [] result = 0 -> LOW

Rank(level) == CASE level = HIGH   -> 2
                 [] level = MEDIUM -> 1
                 [] level = LOW    -> 0

Present(s, h, t) == Cardinality({k \in {1, 2, 3} : <<s, h, t>>[k] # None})

(* C1: every response carries 2/HIGH when some resolved vital is critical, *)
(* else 1/MEDIUM when some vital is concerning, else 0/LOW; no other       *)
(* pairing of prediction_result and health_risk_level appears.             *)
C1_ResultFollowsBands ==
    Returned =>
        LET b == Bands(spo2, heart_rate, body_temperature)
            expected == IF "critical" \in b THEN 2
                        ELSE IF "concerning" \in b THEN 1 ELSE 0
        IN  /\ Response.prediction_result = expected
            /\ Response.health_risk_level = LevelOf(expected)

C1_Witness ==
    /\ Returned
    /\ Spo2Band(spo2) = "concerning"
    /\ HeartRateBand(heart_rate) = "missing"
    /\ TemperatureBand(body_temperature) = "normal"
    /\ Response.prediction_result = 1
    /\ Response.health_risk_level = MEDIUM

(* C2: one critical vital gives 2/HIGH whatever the other two vitals are.  *)
C2_CriticalDominates ==
    (Returned /\ "critical" \in Bands(spo2, heart_rate, body_temperature))
        => /\ Response.prediction_result = 2
           /\ Response.health_risk_level = HIGH

C2_Witness ==
    /\ Returned
    /\ spo2 = Float(85000)
    /\ heart_rate = Float(75000)
    /\ body_temperature = Float(36500)
    /\ Response.prediction_result = 2
    /\ Response.health_risk_level = HIGH

OthersNormal(x, y, bx(_), by(_)) == bx(x) = "normal" /\ by(y) = "normal"

(* C3: with heart rate and temperature normal, SpO2 v gives 0 when         *)
(* v >= 95.0, 1 when 90.0 <= v < 95.0 and 2 when v < 90.0.                 *)
C3_Spo2Boundaries ==
    (/\ Returned
     /\ spo2 # None
     /\ HeartRateBand(heart_rate) = "normal"
     /\ TemperatureBand(body_temperature) = "normal")
        => Response.prediction_result =
              (IF spo2.num >= 95000 * spo2.den THEN 0
               ELSE IF spo2.num >= 90000 * spo2.den THEN 1 ELSE 2)

C3_Witness ==
    /\ Returned
    /\ spo2 = Float(95000)
    /\ HeartRateBand(heart_rate) = "normal"
    /\ TemperatureBand(body_temperature) = "normal"
    /\ Response.prediction_result = 0

(* C4: with SpO2 and temperature normal, heart rate v gives 0 when         *)
(* 60.0 <= v <= 100.0, 1 when 40.0 <= v < 60.0 or 100.0 < v <= 120.0 and   *)
(* 2 when v < 40.0 or v > 120.0.                                           *)
C4_HeartRateBoundaries ==
    (/\ Returned
     /\ heart_rate # None
     /\ Spo2Band(spo2) = "normal"
     /\ TemperatureBand(body_temperature) = "normal")
        => LET n == heart_rate.num
               d == heart_rate.den
           IN  Response.prediction_result =
                  (IF n < 40000 * d \/ n > 120000 * d THEN 2
                   ELSE IF n < 60000 * d \/ n > 100000 * d THEN 1 ELSE 0)

C4_Witness ==
    /\ Returned
    /\ heart_rate = Float(120000)
    /\ Spo2Band(spo2) = "normal"
    /\ TemperatureBand(body_temperature) = "normal"
    /\ Response.prediction_result = 1

(* C5: with SpO2 and heart rate normal, skin temperature v gives 0 when    *)
(* 36.1 <= v <= 37.2, 1 when 35.0 <= v < 36.1 or 37.2 < v <= 38.0 and 2    *)
(* when v < 35.0 or v > 38.0.                                              *)
C5_TemperatureBoundaries ==
    (/\ Returned
     /\ body_temperature # None
     /\ Spo2Band(spo2) = "normal"
     /\ HeartRateBand(heart_rate) = "normal")
        => LET n == body_temperature.num
               d == body_temperature.den
           IN  Response.prediction_result =
                  (IF n < 35000 * d \/ n > 38000 * d THEN 2
                   ELSE IF n < 36100 * d \/ n > 37200 * d THEN 1 ELSE 0)

C5_Witness ==
    /\ Returned
    /\ body_temperature = Float(37200)
    /\ Spo2Band(spo2) = "normal"
    /\ HeartRateBand(heart_rate) = "normal"
    /\ Response.prediction_result = 0

(* C6: confidence_score is the number of non-missing resolved vitals over  *)
(* 3, whatever their values and bands.                                     *)
C6_ConfidenceIsCompleteness ==
    Returned =>
        LET c == Response.confidence_score
        IN  /\ c.den > 0
            /\ 3 * c.num = 1000 * Present(spo2, heart_rate, body_temperature) * c.den

C6_Witness ==
    /\ Returned
    /\ Spo2Band(spo2) = "critical"
    /\ HeartRateBand(heart_rate) = "critical"
    /\ body_temperature = Float(38000)
    /\ Response.confidence_score = Float(1000)

(* C7: with all three vitals missing the call still returns a response:    *)
(* prediction_result 0, confidence 0, no metric averages, no risk factors  *)
(* and exactly one recommendation, the neutral affirmation.                *)
C7_AllMissing ==
    (Done /\ spo2 = None /\ heart_rate = None /\ body_temperature = None)
        => /\ outcome.kind = "response"
           /\ Response.prediction_result = 0
           /\ Response.confidence_score = Float(0)
           /\ Response.metric_averages = <<>>
           /\ Response.risk_factors = <<>>
           /\ Response.recommendations = <<AllNormalRecommendation>>

C7_Witness ==
    /\ Returned
    /\ spo2 = None /\ heart_rate = None /\ body_temperature = None
    /\ request.spo2 = None
    /\ users[request.user_id] = "active"
    /\ \E i \in 1..Len(metrics) : metrics[i].user_id = request.user_id
    /\ Response.prediction_result = 0
    /\ Response.confidence_score = Float(0)

(* C8: between two calls that keep two vitals at the same normal values    *)
(* and move the third to a band at least as severe, prediction_result      *)
(* does not decrease and is 0, 1, 2 for NORMAL, CONCERNING, CRITICAL, with *)
(* risk level LOW, MEDIUM, HIGH.                                           *)
MovesOnly(k, before, after, band(_)) ==
    /\ \A j \in {1, 2, 3} \ {k} : before[j] = after[j]
    /\ before[k] # None /\ after[k] # None
    /\ Severity(band(before[k])) <= Severity(band(after[k]))

C8_MonotonicSeverity ==
    (Returned /\ prev # None) =>
        LET before == <<prev.spo2, prev.heart_rate, prev.body_temperature>>
            after  == <<spo2, heart_rate, body_temperature>>
            holds(k, band(_)) ==
                MovesOnly(k, before, after, band) =>
                    /\ prev.result.prediction_result = Severity(band(before[k]))
                    /\ Response.prediction_result = Severity(band(after[k]))
                    /\ prev.result.prediction_result <= Response.prediction_result
                    /\ prev.result.health_risk_level
                          = LevelOf(Severity(band(before[k])))
                    /\ Response.health_risk_level
                          = LevelOf(Severity(band(after[k])))
        IN  /\ (OthersNormal(after[2], after[3], HeartRateBand, TemperatureBand)
                    => holds(1, Spo2Band))
            /\ (OthersNormal(after[1], after[3], Spo2Band, TemperatureBand)
                    => holds(2, HeartRateBand))
            /\ (OthersNormal(after[1], after[2], Spo2Band, HeartRateBand)
                    => holds(3, TemperatureBand))

C8_Witness ==
    /\ Returned /\ prev # None
    /\ prev.spo2 = spo2 /\ Spo2Band(spo2) = "normal"
    /\ prev.heart_rate = heart_rate /\ HeartRateBand(heart_rate) = "normal"
    /\ prev.body_temperature = Float(37500)
    /\ body_temperature = Float(39000)
    /\ prev.result.health_risk_level = MEDIUM
    /\ Response.health_risk_level = HIGH

C10_UnknownUserNotFound ==
    (Done /\ users[request.user_id] # "active")
        => outcome.kind = "not_found"

-----------------------------------------------------------------------------
(* The mean the lookups are to give: over every reading of the user and    *)
(* kind that has a value, is not deleted and is stamped in the 24 hours up *)
(* to the clock.                                                           *)

Readings(table, clock, user_id, kind) ==
    {i \in 1..Len(table) :
        /\ table[i].user_id = user_id
        /\ table[i].metric_type = kind
        /\ table[i].deleted_at = None
        /\ table[i].value # None
        /\ clock - 24 <= table[i].timestamp
        /\ table[i].timestamp <= clock}

RECURSIVE TotalBetween(_, _, _, _)
TotalBetween(table, S, first, last) ==
    IF first > last THEN Float(0)
    ELSE IF first = last
    THEN (IF first \in S THEN table[first].value ELSE Float(0))
    ELSE LET middle == (first + last) \div 2
         IN  FracAdd(TotalBetween(table, S, first, middle),
                     TotalBetween(table, S, middle + 1, last))

Total(table, S) == TotalBetween(table, S, 1, Len(table))

MeanOfReadings(table, clock, user_id, kind) ==
    LET S == Readings(table, clock, user_id, kind)
    IN  IF S = {} THEN None
        ELSE FracDiv(Total(table, S), Cardinality(S))

Raised(records, kind) ==
    \E i \in 1..Len(records) :
        records[i].metric_type = kind /\ records[i].level = "error"

Kinds == <<SPO2, HEART_RATE, SKIN_TEMPERATURE>>
Vitals == <<spo2, heart_rate, body_temperature>>
SummaryName(k) == <<"spo2", "heart_rate", "body_temperature">>[k]

HasSummary(response, k) ==
    \E i \in 1..Len(response.metric_averages) :
        response.metric_averages[i].metric_type = SummaryName(k)

(* A step that resolves vital k by a lookup that did not raise *)
LooksUp(k) ==
    /\ pc = <<"spo2", "heart_rate", "body_temperature">>[k]
    /\ pc' = <<"heart_rate", "body_temperature", "predict">>[k]
    /\ Len(log') = Len(log) + 1
    /\ log'[Len(log')].level # "error"

DefectLogged ==
    \E i \in 1..Len(log) : log[i] = PredictionFailedRecord(log[i].created)

C12_DefectReraised ==
    (Done /\ DefectLogged) => outcome = [kind |-> "error"]

C12_Witness ==
    /\ Done /\ DefectLogged
    /\ heart_rate # None
    /\ outcome.kind = "error"

(* C13: the endpoint answers 404 when the store has no such user, 500 on   *)
(* an internal defect and 200 with a prediction in every other case.       *)
UserMissingAtLookup ==
    /\ pc \in {"spo2", "heart_rate", "body_temperature"}
    /\ pc' # pc
    /\ users[request.user_id] # "active"

C13_ThreeOutcomes ==
    /\ [][UserMissingAtLookup =>
            (pc' = "done" /\ RouteResult(outcome').status_code = 404)]_vars
    /\ [](Done =>
            /\ RouteResult(outcome).status_code \in {200, 404, 500}
            /\ DefectLogged => RouteResult(outcome).status_code = 500
            /\ (~DefectLogged /\ users[request.user_id] = "active")
                  => /\ RouteResult(outcome).status_code = 200
                     /\ RouteResult(outcome).body.prediction_result \in {0, 1, 2})

-----------------------------------------------------------------------------
(* The texts of the analysis, by the vital they name *)

BandOf(k) == <<Spo2Band(spo2), HeartRateBand(heart_rate),
               TemperatureBand(body_temperature)>>[k]

FactorTexts(k) ==
    << {"Low SpO2 level"},
       {"Low heart rate", "High heart rate"},
       {"Low body temperature", "High body temperature"} >>[k]

ImmediateAttention(k) ==
    << {"Seek immediate medical attention for low oxygen levels"},
       {"Seek immediate medical attention for bradycardia",
        "Seek immediate medical attention for tachycardia"},
       {"Seek immediate medical attention for hypothermia",
        "Seek immediate medical attention for fever"} >>[k]

MonitorOrRest(k) ==
    << {"Monitor oxygen levels and rest"},
       {"Monitor heart rate and avoid strenuous activity",
        "Rest and monitor heart rate"},
       {"Warm up and monitor temperature",
        "Rest, hydrate, and monitor temperature"} >>[k]

Affirmation ==
    "All health parameters are within normal ranges. Continue monitoring."

FactorsOf(response, k) ==
    {i \in 1..Len(response.risk_factors) :
        response.risk_factors[i].text \in FactorTexts(k)}

DirectivesOf(response, k) ==
    {i \in 1..Len(response.recommendations) :
        response.recommendations[i] \in ImmediateAttention(k) \cup MonitorOrRest(k)}

SummariesOf(response, k) ==
    {i \in 1..Len(response.metric_averages) :
        response.metric_averages[i].metric_type = SummaryName(k)}

(* C14: each resolved vital outside its normal band has exactly one risk   *)
(* factor, naming the vital and carrying its value, and exactly one        *)
(* recommendation, of the severity of that vital's own band.               *)
C14_OneFactorAndDirectivePerVital ==
    Returned =>
        \A k \in {1, 2, 3} :
            BandOf(k) \in {"critical", "concerning"} =>
                /\ Cardinality(FactorsOf(Response, k)) = 1
                /\ \A i \in FactorsOf(Response, k) :
                      Response.risk_factors[i].value = Vitals[k]
                /\ Cardinality(DirectivesOf(Response, k)) = 1
                /\ \A i \in DirectivesOf(Response, k) :
                      Response.recommendations[i]
                          \in IF BandOf(k) = "critical"
                              THEN ImmediateAttention(k) ELSE MonitorOrRest(k)

C14_Witness ==
    /\ Returned
    /\ BandOf(1) = "concerning" /\ BandOf(2) = "critical" /\ BandOf(3) = "missing"
    /\ Response.prediction_result = 2
    /\ Len(Response.risk_factors) = 2
    /\ Response.recommendations
          = <<"Monitor oxygen levels and rest",
              "Seek immediate medical attention for tachycardia">>

(* C15: when no resolved vital is outside its normal band the response has *)
(* no risk factor and the affirmation as its only recommendation; the      *)
(* affirmation never stands beside a risk factor or another recommendation.*)
C15_AffirmationAlone ==
    Returned =>
        /\ (\A k \in {1, 2, 3} : BandOf(k) \in {"normal", "missing"})
              => /\ Response.risk_factors = <<>>
                 /\ Response.recommendations = <<Affirmation>>
        /\ (\E i \in 1..Len(Response.recommendations) :
                Response.recommendations[i] = Affirmation)
              => /\ Response.risk_factors = <<>>
                 /\ Len(Response.recommendations) = 1

C15_Witness ==
    /\ Returned
    /\ \A k \in {1, 2, 3} : BandOf(k) = "normal"
    /\ Response.risk_factors = <<>>
    /\ Response.recommendations = <<Affirmation>>

(* C16: risk_factors, recommendations and metric_averages each list their  *)
(* entries in the order SpO2, heart rate, skin temperature.                *)
VitalOfFactor(f)    == CHOOSE k \in {1, 2, 3} : f.text \in FactorTexts(k)
VitalOfDirective(r) == IF r = Affirmation THEN 0
                       ELSE CHOOSE k \in {1, 2, 3} :
                               r \in ImmediateAttention(k) \cup MonitorOrRest(k)
VitalOfSummary(m)   == CHOOSE k \in {1, 2, 3} : m.metric_type = SummaryName(k)

InCanonicalOrder(entries, VitalOf(_)) ==
    \A i, j \in 1..Len(entries) :
        i < j => VitalOf(entries[i]) < VitalOf(entries[j])

C16_CanonicalOrder ==
    Returned =>
        /\ InCanonicalOrder(Response.risk_factors, VitalOfFactor)
        /\ InCanonicalOrder(Response.recommendations, VitalOfDirective)
        /\ InCanonicalOrder(Response.metric_averages, VitalOfSummary)

C16_Witness ==
    /\ Returned
    /\ \A k \in {1, 2, 3} : BandOf(k) \in {"critical", "concerning"}
    /\ Len(Response.risk_factors) = 3
    /\ Len(Response.recommendations) = 3
    /\ Len(Response.metric_averages) = 3
    /\ Response.metric_averages[3].metric_type = "body_temperature"

(* C17: metric_averages has one summary per resolved vital and none for a  *)
(* missing one; the summary carries the resolved value, the score 1.0, 0.5 *)
(* or 0.0 of the vital's band and is_healthy exactly for the normal band.  *)
ScoreOf(band) == CASE band = "normal"     -> 1000
                   [] band = "concerning" -> 500
                   [] band = "critical"   -> 0

C17_SummaryPerVital ==
    Returned =>
        \A k \in {1, 2, 3} :
            IF Vitals[k] = None
            THEN SummariesOf(Response, k) = {}
            ELSE /\ Cardinality(SummariesOf(Response, k)) = 1
                 /\ \A i \in SummariesOf(Response, k) :
                       LET m == Response.metric_averages[i]
                       IN  /\ m.average_value = Vitals[k]
                           /\ m.health_score = ScoreOf(BandOf(k))
                           /\ m.is_healthy <=> BandOf(k) = "normal"

C17_Witness ==
    /\ Returned
    /\ BandOf(1) = "concerning" /\ BandOf(2) = "missing" /\ BandOf(3) = "critical"
    /\ Len(Response.metric_averages) = 2
    /\ Response.metric_averages[1].health_score = 500
    /\ Response.metric_averages[2].health_score = 0
    /\ ~Response.metric_averages[2].is_healthy

-----------------------------------------------------------------------------
(* C18: the response echoes the requested horizon, 24 when the request     *)
(* leaves it unset, and the horizon changes nothing else: every lookup     *)
(* keeps the 24-hour window and every other response field is what the     *)
(* same call gives with the horizon unset.                                 *)
Unset(req) == [req EXCEPT !.prediction_horizon_hours = None]

C18_HorizonOnlyEchoed ==
    /\ [][\A k \in {1, 2, 3} :
            LooksUp(k) =>
                <<spo2', heart_rate', body_temperature'>>[k]
                    = MeanOfReadings(metrics, now, request.user_id, Kinds[k])]_vars
    /\ [](Returned =>
            /\ Response.prediction_horizon_hours
                  = IF request.prediction_horizon_hours = None THEN 24
                    ELSE request.prediction_horizon_hours.int
            /\ [Response EXCEPT !.prediction_horizon_hours = 24]
                  = BuildResponse(Unset(request), ml_model, spo2, heart_rate,
                                  body_temperature, Response.prediction_timestamp))

C18_Witness ==
    /\ Returned
    /\ request.prediction_horizon_hours = Some(168)
    /\ Response.prediction_horizon_hours = 168
    /\ \E i \in 1..Len(metrics) :
          metrics[i].metric_type = SPO2 /\ metrics[i].timestamp < now - 24
    /\ spo2 = None
    /\ Response.confidence_score = Float(0)

-----------------------------------------------------------------------------
(* C19: of two calls in flight at once, for two users or for one, each     *)
(* returns under every interleaving of their lookups the response it gives *)
(* when run alone against the same store: its vitals are its own overrides *)
(* or the means of its own user's readings.                                *)
AloneVital(req, k) ==
    LET override == <<req.spo2, req.heart_rate, req.body_temperature>>[k]
    IN  IF override # None THEN override
        ELSE MeanOfReadings(metrics, now, req.user_id, Kinds[k])

AloneResponse(req, model) ==
    BuildResponse(req, model, AloneVital(req, 1), AloneVital(req, 2),
                  AloneVital(req, 3), now)

AsAlone(c) ==
    (c.pc = "done") =>
        /\ c.outcome.kind = "response"
        /\ c.outcome.response = AloneResponse(c.request, c.ml_model)
        /\ <<c.spo2, c.heart_rate, c.body_temperature>>
              = <<AloneVital(c.request, 1), AloneVital(c.request, 2),
                  AloneVital(c.request, 3)>>

C19_CallsIndependent == AsAlone(Running) /\ AsAlone(other)

C19_Witness ==
    /\ Returned /\ other.pc = "done"
    /\ request.user_id = "u1" /\ other.request.user_id = "u2"
    /\ request.spo2 = None /\ other.request.spo2 = None
    /\ spo2 = Float(88000) /\ other.spo2 = Float(97000)
    /\ Response.prediction_result = 2
    /\ other.outcome.response.prediction_result = 0

-----------------------------------------------------------------------------
(* C20: a lookup resolves its vital to the arithmetic mean of all of the   *)
(* user's readings of the kind in the 24-hour window, however many they    *)
(* are, and to missing exactly when the window holds none.                 *)
C20_MeanOfAllReadings ==
    [][\A k \in {1, 2, 3} :
          LooksUp(k) =>
              LET S == Readings(metrics, now, request.user_id, Kinds[k])
                  resolved == <<spo2', heart_rate', body_temperature'>>[k]
              IN  /\ resolved = None <=> S = {}
                  /\ S # {} => resolved = FracDiv(Total(metrics, S), Cardinality(S))]_vars

-----------------------------------------------------------------------------
(* C21: every lookup takes its mean over the readings stamped in the       *)
(* half-open interval [now - 24h, now): a reading stamped now - 24h counts, *)
(* a reading stamped now does not, nor does any older than 24 hours.       *)
ReadingsHalfOpen(table, clock, user_id, kind) ==
    {i \in 1..Len(table) :
        /\ table[i].user_id = user_id
        /\ table[i].metric_type = kind
        /\ table[i].deleted_at = None
        /\ table[i].value # None
        /\ clock - 24 <= table[i].timestamp
        /\ table[i].timestamp < clock}

C21_HalfOpenWindow ==
    [][\A k \in {1, 2, 3} :
          LooksUp(k) =>
              LET S == ReadingsHalfOpen(metrics, now, request.user_id, Kinds[k])
                  resolved == <<spo2', heart_rate', body_temperature'>>[k]
              IN  resolved = IF S = {} THEN None
                             ELSE FracDiv(Total(metrics, S), Cardinality(S))]_vars

-----------------------------------------------------------------------------
(* C22: a vital that the request gives is resolved to exactly that value,  *)
(* 0 included, and the store is not asked for it; with all three given the *)
(* store is never asked and the response is that of the three given        *)
(* values, whatever the store holds and whether or not it would raise.     *)
Given(req, k) == <<req.spo2, req.heart_rate, req.body_temperature>>[k]

Asked(records, kind) ==
    \E i \in 1..Len(records) : records[i].metric_type = kind

StepsTaken ==
    CASE pc = "idle"             -> 0
      [] pc = "spo2"             -> 0
      [] pc = "heart_rate"       -> 1
      [] pc = "body_temperature" -> 2
      [] OTHER                   -> 3

C22_GivenVitalsVerbatim ==
    (pc # "idle") =>
        /\ \A k \in {1, 2, 3} :
              Given(request, k) # None =>
                  /\ ~Asked(log, Kinds[k])
                  /\ StepsTaken >= k => Vitals[k] = Given(request, k)
        /\ (Returned /\ \A k \in {1, 2, 3} : Given(request, k) # None) =>
              /\ log = <<>>
              /\ Response = BuildResponse(request, ml_model, request.spo2,
                                          request.heart_rate,
                                          request.body_temperature,
                                          Response.prediction_timestamp)

C22_Witness ==
    /\ Returned
    /\ request.spo2 = Float(0) /\ spo2 = Float(0)
    /\ request.heart_rate = Float(75000) /\ heart_rate = Float(75000)
    /\ request.body_temperature = Float(36500)
    /\ Readings(metrics, now, "u1", SPO2) # {}
    /\ Readings(metrics, now, "u1", HEART_RATE) # {}
    /\ log = <<>>
    /\ Response.prediction_result = 2
    /\ Response.confidence_score = Float(1000)

-----------------------------------------------------------------------------
(* C23: a missing vital counts as neither critical nor concerning: of two  *)
(* calls that differ only in that vitals missing in the first are in their *)
(* normal band in the second, both have the same prediction_result,        *)
(* health_risk_level, risk_factors and recommendations, and differ in      *)
(* confidence_score and metric_averages.                                   *)
BandAt(k, v) == <<Spo2Band(v), HeartRateBand(v), TemperatureBand(v)>>[k]

Before(k) == <<prev.spo2, prev.heart_rate, prev.body_temperature>>[k]

Filled == {k \in {1, 2, 3} : Before(k) = None /\ Vitals[k] # None}

MissingMadeNormal ==
    /\ Returned /\ prev # None
    /\ Filled # {}
    /\ \A k \in Filled : BandAt(k, Vitals[k]) = "normal"
    /\ \A k \in {1, 2, 3} \ Filled : Before(k) = Vitals[k]

C23_MissingCountsAsNeither ==
    MissingMadeNormal =>
        /\ \A f \in {"prediction_result", "health_risk_level",
                     "risk_factors", "recommendations"} :
              prev.result[f] = Response[f]
        /\ prev.result.confidence_score # Response.confidence_score
        /\ Len(Response.metric_averages)
              = Len(prev.result.metric_averages) + Cardinality(Filled)

C23_Witness ==
    /\ MissingMadeNormal
    /\ Filled = {2, 3}
    /\ spo2 = Float(92000)
    /\ Response.prediction_result = 1
    /\ prev.result.prediction_result = 1
    /\ prev.result.confidence_score = Frac(1000, 3)
    /\ Response.confidence_score = Float(1000)

-----------------------------------------------------------------------------
(* C24: no step of a call, on the way to a response or to an error, changes *)
(* the users or the readings of the store.                                 *)
CallStep == pc' # pc

C24_ReadOnly ==
    [][CallStep => (users' = users /\ metrics' = metrics)]_vars

C24_Witness ==
    /\ Done /\ DefectLogged
    /\ outcome.kind = "error"
    /\ Raised(log, SPO2)
    /\ ~Raised(log, HEART_RATE) /\ heart_rate # None
    /\ Len(metrics) >= 1

-----------------------------------------------------------------------------
(* C25: the result and the per-vital scores agree in every response: the   *)
(* result is 2 exactly when some summary scores 0.0, 1 exactly when none   *)
(* scores 0.0 and some scores 0.5, and 0 exactly when all score 1.0.       *)
Scores(response) ==
    {response.metric_averages[i].health_score :
        i \in 1..Len(response.metric_averages)}

OutsideNormal == {k \in {1, 2, 3} : BandOf(k) \in {"critical", "concerning"}}

C26_FactorsCountAbnormalVitals ==
    Returned =>
        /\ Response.risk_factors = <<>> <=> Response.prediction_result = 0
        /\ Response.prediction_result \in {1, 2} =>
              /\ Len(Response.risk_factors) = Len(Response.recommendations)
              /\ Len(Response.risk_factors) = Cardinality(OutsideNormal)
              /\ Len(Response.risk_factors) \in 1..3

C26_Witness ==
    /\ Returned
    /\ OutsideNormal = {3}
    /\ BandOf(1) = "normal" /\ BandOf(2) = "missing" /\ BandOf(3) = "concerning"
    /\ Response.prediction_result = 1
    /\ Len(Response.risk_factors) = 1
    /\ Len(Response.recommendations) = 1

-----------------------------------------------------------------------------
(* C27: the lookups of one call share one window: each takes its mean over *)
(* the 24 hours up to the clock value that the first lookup of the call    *)
(* read, also when the clock advances or readings arrive between them.     *)
WindowEnd == IF log = <<>> THEN now ELSE log[1].created

C27_OneWindowPerCall ==
    [][\A k \in {1, 2, 3} :
          LooksUp(k) =>
              <<spo2', heart_rate', body_temperature'>>[k]
                  = MeanOfReadings(metrics, WindowEnd, request.user_id, Kinds[k])]_vars

-----------------------------------------------------------------------------
(* C28: soft-deleted readings and readings without a value count in        *)
(* neither the sum nor the divisor of a mean; a vital that has only such   *)
(* readings in its window is resolved as missing, not as 0.                *)
InWindow(table, clock, user_id, kind) ==
    {i \in 1..Len(table) :
        /\ table[i].user_id = user_id
        /\ table[i].metric_type = kind
        /\ clock - 24 <= table[i].timestamp
        /\ table[i].timestamp <= clock}

Unusable(table) ==
    {i \in 1..Len(table) : table[i].deleted_at # None \/ table[i].value = None}

C28_UnusableReadingsIgnored ==
    [][\A k \in {1, 2, 3} :
          LooksUp(k) =>
              LET usable == InWindow(metrics, now, request.user_id, Kinds[k])
                                \ Unusable(metrics)
                  resolved == <<spo2', heart_rate', body_temperature'>>[k]
              IN  /\ usable = {} => resolved = None
                  /\ usable # {} =>
                        resolved = FracDiv(Total(metrics, usable),
                                           Cardinality(usable))]_vars

C28_Witness ==
    /\ pc = "heart_rate"
    /\ Len(metrics) = 2
    /\ metrics[1].deleted_at # None /\ metrics[1].value = Float(88000)
    /\ metrics[2].deleted_at = None /\ metrics[2].value = Float(97000)
    /\ InWindow(metrics, now, "u1", SPO2) = {1, 2}
    /\ spo2 = Float(97000)

-----------------------------------------------------------------------------
(* Tokens *)

(* The request in reply was handled by this step *)
Handled(name) == reply = None /\ reply' # None /\ reply'.request = name

(* C29: a logout request that carries a token issued by login, while the   *)
(* token is still accepted and the blacklist store is available, is        *)
(* answered 200, and its token is blacklisted from then on: a request that *)
(* presents it is answered 401.                                            *)
C29_LogoutInvalidates ==
    [][ \A token \in tokens :
           /\ Handled("logout")
           /\ reply'.token = token
           /\ reply'.redis_available
           /\ GetCurrentUser(token, TRUE) = HTTP_200_OK
           => /\ reply'.status_code = HTTP_200_OK
              /\ GetCurrentUser(token, TRUE)' = HTTP_401_UNAUTHORIZED ]_vars

-----------------------------------------------------------------------------
(* Accounts *)

Verified(u) == accounts[u] # None /\ accounts[u].email_verified_at # None

(* The verification code the row of u holds is c, not expired, and was not *)
(* accepted before: the row holds the last code generated for it, so a     *)
(* code replaced by a later one is not on the row.                         *)
CodeIsCurrent(u, c) ==
    /\ accounts[u].verification_code = Code(c)
    /\ accounts[u].verification_code_expires_at # None
    /\ accounts[u].verification_code_expires_at.int > now
    /\ accounts[u].accepted < accounts[u].issued

(* C30: login_user issues a token only when the password is the one of the *)
(* user with that email and that user's email is verified at that moment;  *)
(* an email becomes verified only by a verify_email that succeeds, and a   *)
(* successful update_user_profile with an email leaves it unverified;      *)
(* verify_email succeeds only with the code generated last for the user,   *)
(* before its expiry, and not after that code was accepted once.  A code   *)
(* is one generation of six digits: a later one may show the same digits.  *)
C30_LoginNeedsVerifiedEmail ==
    [][ /\ Handled("login_user") /\ reply'.result = "ok"
           => \E u \in GetUserByEmail(reply'.email) :
                 /\ accounts[u].hashed_password = reply'.password
                 /\ Verified(u)
                 /\ reply'.access_token \in tokens'
        /\ Handled("login_user") /\ reply'.result # "ok"
           => tokens' = tokens
        /\ \A u \in Users :
              ~Verified(u) /\ Verified(u)'
              => /\ Handled("verify_email") /\ reply'.result = "ok"
                 /\ u \in GetUserByEmail(reply'.email)
        /\ \A u \in Users :
              /\ Handled("update_user_profile") /\ reply'.result = "ok"
              /\ reply'.user_id = u
              => ~Verified(u)'
        /\ \A c \in Codes :
              /\ Handled("verify_email") /\ reply'.result = "ok"
              /\ reply'.code = c
              => \E u \in GetUserByEmail(reply'.email) : CodeIsCurrent(u, c) ]_vars

(* A token issued to a user who changed email and verified the new one     *)
(* with the third code generated for the row, after the clock moved.       *)
C30_Witness ==
    /\ reply # None
    /\ reply.request = "login_user"
    /\ reply.result = "ok"
    /\ reply.email = "b@x"
    /\ now > 0
    /\ \E u \in GetUserByEmail("b@x") :
          accounts[u].issued = MaxIssues /\ accounts[u].accepted = MaxIssues
====
